---- MODULE Spec2Model ----
(***************************************************************************)
(* Model of urlbox/urlbox_client.py: the UrlboxClient and its three        *)
(* operations get, head and post.                                          *)
(*                                                                         *)
(* Strings are sequences of atoms.  An atom is a run of characters that    *)
(* none of the client's string operations splits: strip() removes          *)
(* whitespace atoms at the ends, startswith("http") looks at the atom      *)
(* "http", quote_plus and the JSON codec translate atom by atom.           *)
(* A Python dict is a sequence of entries [k, v] in insertion order with   *)
(* distinct keys; a Python value is a record [t, v] tagged with its type.  *)
(* An optional value is <<>> (None) or <<x>>.                              *)
(***************************************************************************)
EXTENDS Naturals, Sequences, FiniteSets

VARIABLES
    api_key,        \* self.api_key
    api_secret,     \* self.api_secret: None or Some(string)
    base_api_url,   \* self.base_api_url
    ctor_args,      \* the arguments the constructor was called with
    options,        \* the caller's options mapping, mutated in place by the calls
    op,             \* the last call made on the mapping: "none", "get", "head", "post"
    to_string,      \* the to_string argument of the last call
    args_in,        \* the mapping as it was when the last call was entered
    ret,            \* how the last call ended: [kind, error, value]
    issued          \* the HTTP requests the last call issued, in order

vars == <<api_key, api_secret, base_api_url, ctor_args, options, op, to_string,
          args_in, ret, issued>>

\* ------------------------------------------------------------------ bounds

\* Longest 'url' option value a caller passes, in atoms.
MaxUrlLen == 4

\* ------------------------------------------------------------- Python values

None == <<>>
Some(x) == <<x>>

PyStr(s) == [t |-> "str", v |-> s]
PyBool(b) == [t |-> "bool", v |-> b]
PyInt(n) == [t |-> "int", v |-> n]

Digit == <<"0", "1", "2", "3", "4", "5", "6", "7", "8", "9">>

RECURSIVE IntToStr(_)
IntToStr(n) ==
    IF n < 10 THEN <<Digit[n + 1]>>
    ELSE IntToStr(n \div 10) \o <<Digit[(n % 10) + 1]>>

DigitVal(a) == CHOOSE d \in 0..9 : Digit[d + 1] = a

RECURSIVE StrToInt(_)
StrToInt(s) ==
    IF Len(s) = 1 THEN DigitVal(s[1])
    ELSE 10 * StrToInt(SubSeq(s, 1, Len(s) - 1)) + DigitVal(s[Len(s)])

\* str(x), as the f-strings and urlencode apply it
str(x) ==
    CASE x.t = "str" -> x.v
      [] x.t = "bool" -> IF x.v THEN <<"True">> ELSE <<"False">>
      [] x.t = "int" -> IntToStr(x.v)

\* ------------------------------------------------------------------- dicts

Has(d, k) == \E i \in 1..Len(d) : d[i].k = k

Item(d, k) == d[CHOOSE i \in 1..Len(d) : d[i].k = k].v

GetOr(d, k, default) == IF Has(d, k) THEN Item(d, k) ELSE default

SetItem(d, k, x) ==
    IF Has(d, k)
    THEN [i \in 1..Len(d) |-> IF d[i].k = k THEN [k |-> k, v |-> x] ELSE d[i]]
    ELSE Append(d, [k |-> k, v |-> x])

\* ----------------------------------------------------------------- strings

Whitespace == {" ", "\t"}

RECURSIVE lstrip(_)
lstrip(s) ==
    IF s # <<>> /\ Head(s) \in Whitespace THEN lstrip(Tail(s)) ELSE s

RECURSIVE rstrip(_)
rstrip(s) ==
    IF s # <<>> /\ s[Len(s)] \in Whitespace
    THEN rstrip(SubSeq(s, 1, Len(s) - 1)) ELSE s

strip(s) == lstrip(rstrip(s))

startswith(s, prefix) ==
    Len(s) >= Len(prefix) /\ SubSeq(s, 1, Len(prefix)) = prefix

\* urllib.parse.quote_plus on one atom: a space becomes "+", every other
\* character outside the unreserved set is percent-encoded.
quote_atom(a) ==
    CASE a = " " -> "+"
      [] a = "\t" -> "%09"
      [] a = "://" -> "%3A%2F%2F"
      [] a = "<b>" -> "%3Cb%3E"
      [] OTHER -> a

quote_plus(s) == [i \in 1..Len(s) |-> quote_atom(s[i])]

RECURSIVE urlencode(_)
urlencode(d) ==
    IF d = <<>> THEN <<>>
    ELSE LET e == d[Len(d)]
             pair == quote_plus(<<e.k>>) \o <<"=">> \o quote_plus(str(e.v))
         IN IF Len(d) = 1 THEN pair
            ELSE urlencode(SubSeq(d, 1, Len(d) - 1)) \o <<"&">> \o pair

\* -------------------------------------------------------------------- JSON

\* json.dumps of one value: the JSON text, as atoms
dumps_value(x) ==
    CASE x.t = "str" ->
            <<"\"">> \o [i \in 1..Len(x.v) |-> IF x.v[i] = "\t" THEN "\\t" ELSE x.v[i]]
                     \o <<"\"">>
      [] x.t = "bool" -> IF x.v THEN <<"true">> ELSE <<"false">>
      [] x.t = "int" -> IntToStr(x.v)

\* json.loads of one value's JSON text
loads_value(j) ==
    CASE j[1] = "\"" ->
            LET body == SubSeq(j, 2, Len(j) - 1)
            IN PyStr([i \in 1..Len(body) |-> IF body[i] = "\\t" THEN "\t" ELSE body[i]])
      [] j = <<"true">> -> PyBool(TRUE)
      [] j = <<"false">> -> PyBool(FALSE)
      [] OTHER -> PyInt(StrToInt(j))

\* json.dumps / json.loads of a dict: the members keep their order
json_dumps(d) == [i \in 1..Len(d) |-> [k |-> d[i].k, v |-> dumps_value(d[i].v)]]

json_loads(j) == [i \in 1..Len(j) |-> [k |-> j[i].k, v |-> loads_value(j[i].v)]]

\* ------------------------------------------------------------ the library

BASE_API_URL == <<"https", "://", "api.urlbox.io", "/", "v1", "/">>

POST_END_POINT == <<"render">>

\* The four validation errors, by the exception the code raises
MissingTargetError == "KeyError: Missing 'url' or 'html' key in options"
InvalidUrlError == "InvalidUrlException"
MissingWebhookError == "KeyError: Missing 'webhook_url' key in options"
MissingCredentialError == "Exception: Missing api_secret when initialising client"

ValidationErrors ==
    {MissingTargetError, InvalidUrlError, MissingWebhookError, MissingCredentialError}

\* How a call ends
Raise(opts, e) ==
    [options |-> opts, issued |-> <<>>,
     ret |-> [kind |-> "raise", error |-> e, value |-> <<>>]]

ReturnString(opts, s) ==
    [options |-> opts, issued |-> <<>>,
     ret |-> [kind |-> "string", error |-> "", value |-> s]]

\* requests.get / requests.head / requests.post: the request goes out and the
\* response to it is returned
ReturnResponse(opts, request) ==
    [options |-> opts, issued |-> <<request>>,
     ret |-> [kind |-> "response", error |-> "", value |-> <<>>]]

Request(method, url, headers, json) ==
    [method |-> method, url |-> url, headers |-> headers, json |-> json]

\* Variant: the host name override is dropped.
_init_base_api_url_ignores_host(api_host_name) == BASE_API_URL

_init_base_api_url(api_host_name) ==
    IF api_host_name = None
    THEN BASE_API_URL
    ELSE <<"https", "://">> \o api_host_name[1] \o <<"/">>

\* Variant: the scheme is prepended without looking at the value.
_prepend_schema_always(url) == <<"http", "://">> \o url

_prepend_schema(url) ==
    IF ~startswith(url, <<"http">>)
    THEN <<"http", "://">> \o url
    ELSE url

\* Variant: the digest is keyed by the api_key instead of the api_secret.
_token_keyed_by_api_key(url_encoded_options) ==
    <<"hmac-sha1(">> \o api_key \o <<",">> \o url_encoded_options \o <<")">>

\* hmac.new(secret, message, sha1).hexdigest(): the digest is kept symbolic,
\* one distinct digest per (key, message)
_token(url_encoded_options) ==
    <<"hmac-sha1(">> \o api_secret[1] \o <<",">> \o url_encoded_options \o <<")">>

\* validators.url(url) == True: a scheme, "://", then a host that is a dotted
\* domain name; no whitespace and no further "://" anywhere.
HostAtoms == {"http", "s", "example.com"}

_valid_url(url) ==
    \E scheme \in {<<"http">>, <<"http", "s">>} :
        LET n == Len(scheme) + 1
        IN /\ startswith(url, scheme \o <<"://">>)
           /\ Len(url) > n
           /\ \A i \in (n + 1)..Len(url) : url[i] \in HostAtoms
           /\ \E i \in (n + 1)..Len(url) : url[i] = "example.com"

_get_authenticated(format, url_encoded_options) ==
    Request("GET",
            base_api_url \o api_key \o <<"/">> \o _token(url_encoded_options)
                \o <<"/">> \o str(format) \o <<"?">> \o url_encoded_options,
            <<>>, None)

_get_unauthenticated(format, url_encoded_options) ==
    Request("GET",
            base_api_url \o api_key \o <<"/">> \o str(format) \o <<"?">>
                \o url_encoded_options,
            <<>>, None)

\* Variant: the returned URL is signed when a secret is configured.
get_url_string_signed(format, url_encoded_options) ==
    IF api_secret = None
    THEN base_api_url \o api_key \o <<"/">> \o str(format) \o <<"?">>
            \o url_encoded_options
    ELSE base_api_url \o api_key \o <<"/">> \o _token(url_encoded_options)
            \o <<"/">> \o str(format) \o <<"?">> \o url_encoded_options

\* The URL get returns when to_string is set
get_url_string(format, url_encoded_options) ==
    base_api_url \o api_key \o <<"/">> \o str(format) \o <<"?">> \o url_encoded_options

\* Variant: head signs its URL when a secret is configured.
head_url_signed(format, url_encoded_options) ==
    IF api_secret = None
    THEN base_api_url \o api_key \o <<"/">> \o str(format) \o <<"?">>
            \o url_encoded_options
    ELSE base_api_url \o api_key \o <<"/">> \o _token(url_encoded_options)
            \o <<"/">> \o str(format) \o <<"?">> \o url_encoded_options

\* The URL head requests
head_url(format, url_encoded_options) ==
    base_api_url \o api_key \o <<"/">> \o str(format) \o <<"?">> \o url_encoded_options

\* Variant: the bearer token is the api_key.
post_headers_with_api_key ==
    <<[k |-> "Content-Type", v |-> <<"application/json">>],
      [k |-> "Authorization", v |-> <<"Bearer", " ">> \o api_key]>>

\* The headers post sends
post_headers ==
    <<[k |-> "Content-Type", v |-> <<"application/json">>],
      [k |-> "Authorization", v |-> <<"Bearer", " ">> \o api_secret[1]]>>

\* Variant: the normalisation prepends the scheme to every value.
NormalizeUrl_always_prepends(opts) ==
    IF Has(opts, "url")
    THEN SetItem(opts, "url", PyStr(<<"http", "://">> \o strip(Item(opts, "url").v)))
    ELSE opts

\* The target normalisation each operation carries: strip, _prepend_schema,
\* store back into the mapping.
NormalizeUrl(opts) ==
    IF Has(opts, "url")
    THEN SetItem(opts, "url", PyStr(_prepend_schema(strip(Item(opts, "url").v))))
    ELSE opts

\* Variant: the format is overwritten with the default.
DefaultFormat_overwrites(opts) == SetItem(opts, "format", PyStr(<<"png">>))

\* format = options.get("format", "png"); options["format"] = format
DefaultFormat(opts) == SetItem(opts, "format", GetOr(opts, "format", PyStr(<<"png">>)))

get(opts, as_string) ==
    IF ~Has(opts, "html") /\ ~Has(opts, "url")
    THEN Raise(opts, MissingTargetError)
    ELSE LET o1 == NormalizeUrl(opts)
         IN IF Has(opts, "url") /\ ~_valid_url(Item(o1, "url").v)
            THEN Raise(o1, InvalidUrlError)
            ELSE LET format == GetOr(o1, "format", PyStr(<<"png">>))
                     o2 == DefaultFormat(o1)
                     url_encoded_options == urlencode(o2)
                 IN IF as_string
                    THEN ReturnString(o2, get_url_string(format, url_encoded_options))
                    ELSE IF api_secret = None
                         THEN ReturnResponse(o2,
                                _get_unauthenticated(format, url_encoded_options))
                         ELSE ReturnResponse(o2,
                                _get_authenticated(format, url_encoded_options))

\* Variant: head checks the url only after the request has gone out.
head_validates_late(opts) ==
    IF ~Has(opts, "html") /\ ~Has(opts, "url")
    THEN Raise(opts, MissingTargetError)
    ELSE LET o1 == NormalizeUrl(opts)
             format == GetOr(o1, "format", PyStr(<<"png">>))
             o2 == DefaultFormat(o1)
             request == Request("HEAD", head_url(format, urlencode(o2)), <<>>, None)
         IN IF Has(opts, "url") /\ ~_valid_url(Item(o1, "url").v)
            THEN [options |-> o2, issued |-> <<request>>,
                  ret |-> [kind |-> "raise", error |-> InvalidUrlError, value |-> <<>>]]
            ELSE ReturnResponse(o2, request)

head(opts) ==
    IF ~Has(opts, "html") /\ ~Has(opts, "url")
    THEN Raise(opts, MissingTargetError)
    ELSE LET o1 == NormalizeUrl(opts)
         IN IF Has(opts, "url") /\ ~_valid_url(Item(o1, "url").v)
            THEN Raise(o1, InvalidUrlError)
            ELSE LET format == GetOr(o1, "format", PyStr(<<"png">>))
                     o2 == DefaultFormat(o1)
                     url_encoded_options == urlencode(o2)
                 IN ReturnResponse(o2,
                        Request("HEAD", head_url(format, url_encoded_options),
                                <<>>, None))

post(opts) ==
    IF ~Has(opts, "html") /\ ~Has(opts, "url")
    THEN Raise(opts, MissingTargetError)
    ELSE IF ~Has(opts, "webhook_url")
    THEN Raise(opts, MissingWebhookError)
    ELSE IF api_secret = None
    THEN Raise(opts, MissingCredentialError)
    ELSE LET o1 == NormalizeUrl(opts)
         IN IF Has(opts, "url") /\ ~_valid_url(Item(o1, "url").v)
            THEN Raise(o1, InvalidUrlError)
            ELSE LET o2 == DefaultFormat(o1)
                 IN ReturnResponse(o2,
                        Request("POST",
                                base_api_url \o POST_END_POINT,
                                post_headers,
                                Some(json_loads(json_dumps(o2)))))

\* ------------------------------------------------------------------ inputs

ApiKeys == {<<"K">>}
ApiSecrets == {None, Some(<<"S">>)}
ApiHostNames == {None, Some(<<"screenshots.example">>)}

UrlAtoms == {" ", "http", "://", "example.com"}

Urls == UNION {[1..n -> UrlAtoms] : n \in 0..MaxUrlLen}

\* The mappings a caller passes: any choice of the keys below, in this order.
Entry(k, x) == [k |-> k, v |-> x]
OneOf(S) == {<<>>} \cup {<<e>> : e \in S}

OptionMappings ==
    {u \o h \o f \o w \o x :
        u \in OneOf({Entry("url", PyStr(s)) : s \in Urls}),
        h \in OneOf({Entry("html", PyStr(<<"<b>", "hi">>))}),
        f \in OneOf({Entry("format", PyStr(<<"jpg">>))}),
        w \in OneOf({Entry("webhook_url", PyStr(<<"http", "s", "://", "hook.example">>))}),
        x \in {<<>>, <<Entry("full_page", PyBool(TRUE)), Entry("width", PyInt(300))>>}}

\* ------------------------------------------------------------ state machine

NoRet == [kind |-> "none", error |-> "", value |-> <<>>]

\* UrlboxClient(api_key=..., api_secret=..., api_host_name=...); the caller
\* holds an empty mapping.
Init ==
    \E k \in ApiKeys, s \in ApiSecrets, h \in ApiHostNames :
        /\ api_key = k
        /\ api_secret = s
        /\ base_api_url = _init_base_api_url(h)
        /\ ctor_args = [api_key |-> k, api_secret |-> s, api_host_name |-> h]
        /\ options = <<>>
        /\ op = "none"
        /\ to_string = FALSE
        /\ args_in = <<>>
        /\ ret = NoRet
        /\ issued = <<>>

client == <<api_key, api_secret, base_api_url, ctor_args>>

Reset ==
    /\ op' = "none"
    /\ to_string' = FALSE
    /\ args_in' = <<>>
    /\ ret' = NoRet
    /\ issued' = <<>>
    /\ UNCHANGED client

\* The caller, holding no mapping, builds a fresh options mapping.
NewOptions ==
    /\ options = <<>>
    /\ op = "none"
    /\ \E o \in OptionMappings : options' = o
    /\ Reset

\* The caller drops the mapping it has made calls with.
DropOptions ==
    /\ op # "none"
    /\ options' = <<>>
    /\ Reset

Finish(name, as_string, r) ==
    /\ options' = r.options
    /\ op' = name
    /\ to_string' = as_string
    /\ args_in' = options
    /\ ret' = r.ret
    /\ issued' = r.issued
    /\ UNCHANGED client

CallGet == \E as_string \in BOOLEAN : Finish("get", as_string, get(options, as_string))

CallHead == Finish("head", FALSE, head(options))

CallPost == Finish("post", FALSE, post(options))

Next == NewOptions \/ DropOptions \/ CallGet \/ CallHead \/ CallPost

Spec == Init /\ [][Next]_vars

\* ------------------------------------------------------------------ claims

Called == op # "none"
Raised == ret.kind = "raise"
Returned == Called /\ ~Raised

\* The 'url' value the caller passed to the last call
GivenUrl == Item(args_in, "url").v

\* The last call got as far as normalising the 'url' option
UrlNormalized ==
    /\ Called
    /\ Has(args_in, "url")
    /\ ~(Raised /\ ret.error \in {MissingWebhookError, MissingCredentialError})

Png == PyStr(<<"png">>)

\* {baseUrl}{apiKey}/{format}?{query} for the mapping as the call left it
UnsignedUrl ==
    base_api_url \o api_key \o <<"/">> \o str(Item(options, "format"))
        \o <<"?">> \o urlencode(options)

\* C1: a get, head or post that ends in a validation error (missing target,
\* invalid url, missing webhook_url, missing api_secret) has issued no HTTP
\* request; a mapping with neither 'url' nor 'html' makes each of the three
\* fail with the missing-target error and no request.
C1_NoRequestBeforeValidation ==
    /\ (Called /\ Raised /\ ret.error \in ValidationErrors) => issued = <<>>
    /\ (Called /\ ~Has(args_in, "url") /\ ~Has(args_in, "html")) =>
            /\ Raised
            /\ ret.error = MissingTargetError
            /\ issued = <<>>

C1_Witness ==
    /\ op = "head"
    /\ Raised
    /\ ret.error = InvalidUrlError
    /\ Has(args_in, "format")

\* C2: a get with to_string false that passes validation issues exactly one
\* GET; without an api_secret its URL is {baseUrl}{apiKey}/{format}?{query},
\* with one it is {baseUrl}{apiKey}/{token}/{format}?{query}, query being the
\* URL-encoding of the normalised options and token the HMAC-SHA1 digest of
\* that same query keyed by the api_secret.
C2_GetRequest ==
    (op = "get" /\ ~to_string /\ ~Raised) =>
        /\ Len(issued) = 1
        /\ issued[1].method = "GET"
        /\ LET query == urlencode(options)
               format == str(Item(options, "format"))
           IN issued[1].url =
                IF api_secret = None
                THEN base_api_url \o api_key \o <<"/">> \o format \o <<"?">> \o query
                ELSE base_api_url \o api_key \o <<"/">>
                        \o <<"hmac-sha1(">> \o api_secret[1] \o <<",">> \o query \o <<")">>
                        \o <<"/">> \o format \o <<"?">> \o query

C2_Witness ==
    /\ op = "get"
    /\ ~to_string
    /\ ret.kind = "response"
    /\ api_secret # None
    /\ Has(args_in, "url")
    /\ GivenUrl # Item(options, "url").v

\* C3: a get with to_string true that passes validation issues no request and
\* returns {baseUrl}{apiKey}/{format}?{query}, with no token segment, whether
\* or not the client has an api_secret.
C3_ToStringUnsigned ==
    (op = "get" /\ to_string /\ ~Raised) =>
        /\ issued = <<>>
        /\ ret.kind = "string"
        /\ ret.value = UnsignedUrl

C3_Witness ==
    /\ op = "get"
    /\ to_string
    /\ ret.kind = "string"
    /\ api_secret # None

\* C4: a head that passes validation issues exactly one HEAD to
\* {baseUrl}{apiKey}/{format}?{query}, never with a token segment, with or
\* without an api_secret; its target check, url normalisation and format
\* defaulting are those of get.
C4_HeadUnsigned ==
    op = "head" =>
        /\ ~Raised =>
            /\ Len(issued) = 1
            /\ issued[1].method = "HEAD"
            /\ issued[1].url = UnsignedUrl
        /\ options = get(args_in, TRUE).options
        /\ ret.error = get(args_in, TRUE).ret.error

C4_Witness ==
    /\ op = "head"
    /\ ret.kind = "response"
    /\ api_secret # None
    /\ ~Has(args_in, "format")

\* C5: a post whose mapping has 'url' or 'html' fails with the missing-webhook
\* error when 'webhook_url' is absent (with or without an api_secret), fails
\* with the missing-credential error when 'webhook_url' is present and no
\* api_secret is configured, and otherwise (the url being valid) issues exactly
\* one POST to {base}render with Authorization: Bearer {api_secret} and a JSON
\* body that reflects the mapping: the caller's entries in their order, the
\* 'url' as normalised, and the defaulted 'format'.
C5_Post ==
    (op = "post" /\ (Has(args_in, "url") \/ Has(args_in, "html"))) =>
        /\ ~Has(args_in, "webhook_url") =>
                Raised /\ ret.error = MissingWebhookError
        /\ (Has(args_in, "webhook_url") /\ api_secret = None) =>
                Raised /\ ret.error = MissingCredentialError
        /\ (Has(args_in, "webhook_url") /\ api_secret # None) =>
                /\ Raised => ret.error = InvalidUrlError
                /\ Raised <=> (Has(args_in, "url") /\ ~_valid_url(Item(options, "url").v))
                /\ ~Raised =>
                    /\ Len(issued) = 1
                    /\ issued[1].method = "POST"
                    /\ issued[1].url = base_api_url \o <<"render">>
                    /\ \E i \in 1..Len(issued[1].headers) :
                            issued[1].headers[i] =
                                [k |-> "Authorization",
                                 v |-> <<"Bearer", " ">> \o api_secret[1]]
                    /\ issued[1].json = Some(options)
                    /\ \A i \in 1..Len(args_in) :
                            /\ options[i].k = args_in[i].k
                            /\ args_in[i].k # "url" => options[i].v = args_in[i].v

C5_Witness ==
    /\ op = "post"
    /\ ret.kind = "response"
    /\ Has(args_in, "full_page")
    /\ Has(args_in, "url")

\* A value has a scheme when "://" follows a non-empty run of scheme characters.
HasScheme(url) ==
    \E i \in 2..Len(url) :
        /\ url[i] = "://"
        /\ \A j \in 1..(i - 1) : url[j] \notin Whitespace \cup {"://"}

\* C6: for a 'url' value that lacks a scheme, the target stored in
\* options['url'] after normalisation is "http://" followed by the
\* whitespace-trimmed value.
C6_SchemePrepended ==
    (UrlNormalized /\ ~HasScheme(strip(GivenUrl))) =>
        Item(options, "url").v = <<"http", "://">> \o strip(GivenUrl)

\* C7, as stated: for a 'url' value that already starts with "http",
\* normalisation is a no-op: options['url'] afterwards equals the value the
\* caller passed.
C7_NoOpAsStated ==
    (UrlNormalized /\ startswith(GivenUrl, <<"http">>)) =>
        Item(options, "url").v = GivenUrl

\* C7, amended: for a 'url' value that already starts with "http",
\* normalisation prepends nothing: options['url'] afterwards equals the value
\* the caller passed with its surrounding whitespace trimmed.
C7_TrimmedOnly ==
    (UrlNormalized /\ startswith(GivenUrl, <<"http">>)) =>
        Item(options, "url").v = strip(GivenUrl)

C7_Witness ==
    /\ UrlNormalized
    /\ startswith(GivenUrl, <<"http">>)
    /\ GivenUrl[Len(GivenUrl)] \in Whitespace
    /\ ~Raised

\* The two atoms before the first "?" of a URL: "/" and the format
FormatSegment(url) ==
    LET q == CHOOSE i \in 1..Len(url) : url[i] = "?" /\ \A j \in 1..(i - 1) : url[j] # "?"
    IN <<url[q - 2], url[q - 1]>>

\* C8: after a call has gone through a mapping and returned, the mapping has
\* a 'format': the caller's if one was supplied, "png" otherwise; the format
\* segment of the URL is options['format'].
C8_FormatConcrete ==
    Returned =>
        /\ Has(options, "format")
        /\ Item(options, "format") =
                (IF Has(args_in, "format") THEN Item(args_in, "format") ELSE Png)
        /\ ret.kind = "string" =>
                FormatSegment(ret.value) = <<"/">> \o str(Item(options, "format"))
        /\ (op \in {"get", "head"} /\ ret.kind = "response") =>
                FormatSegment(issued[1].url) = <<"/">> \o str(Item(options, "format"))

C8_Witness ==
    /\ Returned
    /\ Has(args_in, "format")
    /\ Item(args_in, "format") # Png
    /\ ret.kind = "response"
    /\ op = "get"

\* The base URL the constructor's arguments fix
ConstructedBase ==
    IF ctor_args.api_host_name = None
    THEN <<"https", "://", "api.urlbox.io", "/", "v1", "/">>
    ELSE <<"https", "://">> \o ctor_args.api_host_name[1] \o <<"/">>

\* C9: whatever calls were made, and however they ended, api_key, api_secret
\* and the base URL are those fixed at construction
\* ("https://api.urlbox.io/v1/" without a host name, "https://{host}/" with
\* one), and the requests a call issues are addressed with them.
C9_CredentialsFixed ==
    /\ api_key = ctor_args.api_key
    /\ api_secret = ctor_args.api_secret
    /\ base_api_url = ConstructedBase
    /\ \A i \in 1..Len(issued) :
            startswith(issued[i].url,
                       ConstructedBase \o
                            (IF issued[i].method = "POST" THEN <<"render">>
                             ELSE ctor_args.api_key))

C9_Witness ==
    /\ op = "post"
    /\ ret.kind = "response"
    /\ ctor_args.api_host_name # None
    /\ ctor_args.api_secret # None

\* C10: once get(options, to_string=True) has succeeded, a second
\* get(options, to_string=True) on the same, now mutated, mapping succeeds
\* too, leaves the mapping as it is and returns the same URL string.
C10_Idempotent ==
    [][(/\ op = "get" /\ to_string /\ ret.kind = "string"
        /\ op' = "get" /\ to_string')
            => (ret' = ret /\ options' = options)]_vars

\* A get(to_string=True) entered with a mapping that an earlier call has
\* normalised: callers never pass "png", and the 'url' was given a scheme.
C10_Witness ==
    /\ op = "get"
    /\ to_string
    /\ ret.kind = "string"
    /\ args_in = options
    /\ Has(args_in, "url")
    /\ Item(args_in, "format") = Png
    /\ Len(GivenUrl) = 3

====
